---- MODULE Spec2Model ----
(***************************************************************************)
(* SmartDeal price aggregator (src/app.py).  The file holds two variants   *)
(* of the application: the eBay-only "lite" application (lines 1-225) and  *)
(* the eBay + Amazon "smartdeal" application (lines 226-489).              *)
(*                                                                         *)
(* Conventions of the model                                                *)
(*   - a Python str is a sequence of one-character strings;                *)
(*   - a Python float is an exact rational <<n, d>> with d > 0;            *)
(*   - an expression that may raise evaluates to Ok(value) or Exc(name).   *)
(***************************************************************************)
EXTENDS Integers, Sequences, FiniteSets, TLC

VARIABLES
    \* ---- the application (Spec) ----
    variant,            \* which of the two applications of src/app.py runs
    pc,                 \* position of the Streamlit script: "idle" | "done"
    cache,              \* the st.cache_data entry of _get_exchange_rates
    condition_filter,   \* sidebar radio
    use_mock,           \* sidebar checkbox
    query,              \* search box text
    keys,               \* api_keys: credential name -> is a non-empty string
    rates,              \* self.rates of the aggregator built by this run
    world,              \* what the remote services answered in this run
    ebay_res,           \* return value of search_ebay
    amz_res,            \* return value of search_amazon
    results,            \* the list main() hands to pandas
    df,                 \* the sorted frame that is displayed
    calls,              \* per run: adapter invocations and network calls
    raised,             \* an exception left main()
    \* ---- _convert_price on its own (SpecConvert) ----
    cp_pc, cp_in, cp_out,
    \* ---- _nlp_clean_query on its own (SpecNormalize) ----
    nq_pc, nq_in, nq_once, nq_twice

appVars  == <<variant, pc, cache, condition_filter, use_mock, query, keys,
              rates, world, ebay_res, amz_res, results, df, calls, raised>>
cpVars   == <<cp_pc, cp_in, cp_out>>
nqVars   == <<nq_pc, nq_in, nq_once, nq_twice>>
vars     == <<appVars, cpVars, nqVars>>

-----------------------------------------------------------------------------
(* Bounds of the model *)

MaxEbayItems   == 2     \* items in one eBay response
MaxAmazonItems == 2     \* items in one Amazon response
MaxQueryLen    == 5     \* characters of a query given to _nlp_clean_query
MaxPrice       == 3     \* amounts given to _convert_price are 0..MaxPrice

None == "None"

-----------------------------------------------------------------------------
(* Floats as exact rationals *)

Rat(n, d)    == <<n, d>>
RatAdd(a, b) == <<a[1] * b[2] + b[1] * a[2], a[2] * b[2]>>
RatEq(a, b)  == a[1] * b[2] = b[1] * a[2]
RatLE(a, b)  == a[1] * b[2] <= b[1] * a[2]
RatLT(a, b)  == a[1] * b[2] < b[1] * a[2]
\* a / r for r # 0 (rates are never negative in the model)
RatDiv(a, r) == <<a[1] * r[2], a[2] * r[1]>>

Ok(x)  == [ok |-> TRUE, v |-> x]
Exc(e) == [ok |-> FALSE, v |-> e]

-----------------------------------------------------------------------------
(* EbayAggregator.__init__ : fixed attributes *)

target_currency == "USD"

\* A character outside ASCII is written as its code point, "u043a" for
\* CYRILLIC SMALL LETTER KA; the four Russian stop words of line 20 follow
\* the five English ones.
stop_words ==
    { <<"b","u","y">>, <<"p","r","i","c","e">>, <<"c","h","e","a","p">>,
      <<"b","e","s","t">>, <<"f","i","n","d">>,
      <<"u043a","u0443","u043f","u0438","u0442","u044c">>,
      <<"u0446","u0435","u043d","u0430">>,
      <<"u043f","u043e","u0438","u0441","u043a">>,
      <<"u043b","u0443","u0447","u0448","u0438","u0439">> }

-----------------------------------------------------------------------------
(* _convert_price *)

\* a mutant: the same-currency shortcut is missing
_convert_price_no_same(price, currency, rts) ==
    IF DOMAIN rts = {} \/ currency \notin DOMAIN rts
    THEN Ok(price)
    ELSE LET rate == rts[currency]
         IN  IF rate[1] = 0 THEN Exc("ZeroDivisionError")
             ELSE Ok(RatDiv(price, rate))

_convert_price(price, currency, rts) ==
    IF currency = target_currency
    THEN Ok(price)
    ELSE IF DOMAIN rts = {} \/ currency \notin DOMAIN rts
    THEN Ok(price)
    ELSE LET rate == rts[currency]
         IN  IF rate[1] = 0 THEN Exc("ZeroDivisionError")
             ELSE Ok(RatDiv(price, rate))

-----------------------------------------------------------------------------
(* _nlp_clean_query : str.lower, str.split, the stop-word filter, " ".join *)

UpperCase == <<"A","B","C","D","E","F","G","H","I","J","K","L","M",
               "N","O","P","Q","R","S","T","U","V","W","X","Y","Z">>
LowerCase == <<"a","b","c","d","e","f","g","h","i","j","k","l","m",
               "n","o","p","q","r","s","t","u","v","w","x","y","z">>

LowerChar(c) ==
    IF \E i \in 1..Len(UpperCase) : UpperCase[i] = c
    THEN LowerCase[CHOOSE i \in 1..Len(UpperCase) : UpperCase[i] = c]
    ELSE c

lower(s) == [i \in 1..Len(s) |-> LowerChar(s[i])]

Whitespace == {" ", "\t", "\n"}

\* str.split() with no argument: the maximal runs of non-whitespace
RECURSIVE SplitFrom(_, _, _)
SplitFrom(s, i, cur) ==
    IF i > Len(s)
    THEN IF cur = <<>> THEN <<>> ELSE <<cur>>
    ELSE IF s[i] \in Whitespace
         THEN IF cur = <<>>
              THEN SplitFrom(s, i + 1, <<>>)
              ELSE <<cur>> \o SplitFrom(s, i + 1, <<>>)
         ELSE SplitFrom(s, i + 1, Append(cur, s[i]))

split(s) == SplitFrom(s, 1, <<>>)

RECURSIVE join(_)
join(ws) ==
    IF ws = <<>> THEN <<>>
    ELSE IF Len(ws) = 1 THEN ws[1]
    ELSE ws[1] \o <<" ">> \o join(Tail(ws))

NotStopWord(w) == w \notin stop_words

\* a mutant: the stop words are removed before the text is lower-cased
_nlp_clean_query_filter_first(q) ==
    lower(join(SelectSeq(split(q), NotStopWord)))

_nlp_clean_query(q) ==
    LET words    == split(lower(q))
        keywords == SelectSeq(words, NotStopWord)
    IN  join(keywords)

-----------------------------------------------------------------------------
(* The exchange-rate table: _get_exchange_rates under @st.cache_data         *)

EmptyTable == [c \in {} |-> <<0, 1>>]

\* conversion_rates payloads the rate provider may send
RateTables ==
    { ("GBP" :> <<1, 2>>),
      ("GBP" :> <<0, 1>>),
      ("USD" :> <<1, 1>>) @@ ("GBP" :> <<1, 2>>) }

\* What the rate provider answers to the GET of lines 30-35: a failure
\* (network error, bad payload, result # "success") or a success payload.
NoRateCall  == [kind |-> "no_call", table |-> EmptyTable]
RateAnswers ==
    {[kind |-> "network_error", table |-> EmptyTable]}
    \cup {[kind |-> "success", table |-> t] : t \in RateTables}

\* the body of _get_exchange_rates: [value, net] with net the GETs issued
_get_exchange_rates(ks, answer) ==
    IF ~ks.exchange_rate_key
    THEN [value |-> EmptyTable, net |-> 0]
    ELSE IF answer.kind = "success"
         THEN [value |-> answer.table, net |-> 1]
         ELSE [value |-> EmptyTable, net |-> 1]

\* @st.cache_data(ttl=3600) around it.  The only parameter is named _self,
\* and st.cache_data leaves parameters whose name starts with an underscore
\* out of the cache key: there is one entry for all instances.
NoEntry == [present |-> FALSE, table |-> EmptyTable]

cached_get_exchange_rates(ks, entry, answer) ==
    IF entry.present
    THEN [value |-> entry.table, net |-> 0, entry |-> entry]
    ELSE LET r == _get_exchange_rates(ks, answer)
         IN  [value |-> r.value, net |-> r.net,
              entry |-> [present |-> TRUE, table |-> r.value]]

-----------------------------------------------------------------------------
(* The eBay adapter *)

TokenAnswers == {"ok", "auth_failure", "network_error", "timeout", "malformed"}

\* _get_ebay_token: [token, net]
_get_ebay_token(ks, answer) ==
    IF ~ks.ebay_client_id \/ ~ks.ebay_client_secret
    THEN [token |-> None, net |-> 0]
    ELSE IF answer = "ok"
         THEN [token |-> "token", net |-> 1]
         ELSE [token |-> None, net |-> 1]

\* One item summary of a search response, by the fields the adapter reads
\* (the JSON carries amounts as strings):
\*   price    "absent" (no price block) | "bad" (not a number) | "1"
\*   currency of the price block
\*   ship     "absent" (no shippingOptions) | "bad" | "1"
EbayItems ==
    { [price |-> "1", currency |-> "USD", ship |-> "absent"],
      [price |-> "1", currency |-> "USD", ship |-> "1"],
      [price |-> "1", currency |-> "GBP", ship |-> "absent"],
      [price |-> "absent", currency |-> "USD", ship |-> "absent"],
      [price |-> "bad", currency |-> "USD", ship |-> "absent"],
      [price |-> "1", currency |-> "USD", ship |-> "bad"] }

SeqUpTo(S, n) == UNION {[1..k -> S] : k \in 0..n}

NoItems == <<>>

\* What the GET of line 99 / 294 can end in besides a list of items: a
\* connection error, a timeout exception (requests raises it after the
\* timeout=10 of the lite application; the smartdeal application passes none
\* and gets it from the socket layer), a body that is not the JSON expected.
EbayFailures == {"network_error", "timeout", "malformed"}
NoEbayCall   == [kind |-> "no_call", items |-> NoItems]
EbayAnswers  ==
    {[kind |-> f, items |-> NoItems] : f \in EbayFailures}
    \cup {[kind |-> "items", items |-> l] : l \in SeqUpTo(EbayItems, MaxEbayItems)}

\* float(x) of a field value
float(x) ==
    CASE x = "0" -> Ok(Rat(0, 1))
      [] x = "1" -> Ok(Rat(1, 1))
      [] x = "2" -> Ok(Rat(2, 1))
      [] OTHER   -> Exc("ValueError")

\* lines 106-108 (lite) and 300-301 (smartdeal): raw_price and currency
ItemPrice(v, item) ==
    IF item.price = "absent"
    THEN IF v = "lite"
         THEN [raw_price |-> float("0"), currency |-> "USD"]
         ELSE [raw_price |-> Exc("KeyError"), currency |-> "USD"]
    ELSE [raw_price |-> float(item.price), currency |-> item.currency]

\* lines 111-115 and 304-307
ItemShipping(item) ==
    IF item.ship = "absent" THEN Ok(Rat(0, 1)) ELSE float(item.ship)

\* the body of the for loop for the i-th item: the offer appended, or the
\* exception raised.  The i-th item is titled i.
EbayOffer(v, item, i, rts) ==
    LET p == ItemPrice(v, item)
        s == ItemShipping(item)
    IN  IF ~p.raw_price.ok THEN p.raw_price
        ELSE IF ~s.ok THEN s
        ELSE LET final_price ==
                    _convert_price(RatAdd(p.raw_price.v, s.v), p.currency, rts)
             IN  IF ~final_price.ok THEN final_price
                 ELSE Ok([Source |-> "eBay", Title |-> i, Total |-> final_price.v])

\* the list of the offers parsed, or the first exception raised
Collect(parsed) ==
    IF \E i \in 1..Len(parsed) : ~parsed[i].ok
    THEN parsed[CHOOSE i \in 1..Len(parsed) :
                   ~parsed[i].ok /\ \A j \in 1..(i - 1) : parsed[j].ok]
    ELSE Ok([i \in 1..Len(parsed) |-> parsed[i].v])

\* the try block of lines 98-132 / 293-323
EbayTry(v, rts, answer) ==
    IF answer.kind # "items"
    THEN Exc(answer.kind)
    ELSE Collect([i \in 1..Len(answer.items) |->
                     EbayOffer(v, answer.items[i], i, rts)])

\* a mutant: the search request and the parsing are not inside try/except
search_ebay_unguarded(v, ks, rts, q, tokenAnswer, answer) ==
    LET clean_query == _nlp_clean_query(q)
        t == _get_ebay_token(ks, tokenAnswer)
    IN  IF t.token = None
        THEN [res |-> <<>>, exc |-> None, net |-> t.net]
        ELSE LET body == EbayTry(v, rts, answer)
             IN  IF ~body.ok
                 THEN [res |-> <<>>, exc |-> body.v, net |-> t.net + 1]
                 ELSE [res |-> body.v, exc |-> None, net |-> t.net + 1]

\* search_ebay: res the list returned, exc the exception that leaves it
\* (clean_query only goes into the request URL)
search_ebay(v, ks, rts, q, tokenAnswer, answer) ==
    LET clean_query == _nlp_clean_query(q)
        t == _get_ebay_token(ks, tokenAnswer)
    IN  IF t.token = None
        THEN [res |-> <<>>, exc |-> None, net |-> t.net]
        ELSE LET body == EbayTry(v, rts, answer)
             IN  IF ~body.ok
                 THEN [res |-> <<>>, exc |-> None, net |-> t.net + 1]
                 ELSE [res |-> body.v, exc |-> None, net |-> t.net + 1]

-----------------------------------------------------------------------------
(* The Amazon adapter *)

\* One product of a search_items answer: "1" (price 1), "absent" (no prices
\* substructure) or "bad" (an attribute the adapter dereferences is None).
AmazonItems == {"1", "absent", "bad"}

AmazonFailures == {"auth_failure", "network_error", "timeout", "malformed"}
NoAmazonCall   == [kind |-> "no_call", items |-> NoItems]
AmazonAnswers  ==
    {[kind |-> f, items |-> NoItems] : f \in AmazonFailures}
    \cup {[kind |-> "items", items |-> l] : l \in SeqUpTo(AmazonItems, MaxAmazonItems)}

\* lines 347-361
AmazonOffer(item, i) ==
    IF item = "bad" THEN Exc("AttributeError")
    ELSE Ok([Source |-> "Amazon", Title |-> i,
             Total |-> IF item = "absent" THEN Rat(0, 1) ELSE Rat(1, 1)])

AmazonTry(answer) ==
    IF answer.kind # "items"
    THEN Exc(answer.kind)
    ELSE Collect([i \in 1..Len(answer.items) |-> AmazonOffer(answer.items[i], i)])

\* search_amazon: api the search_items calls attempted
search_amazon(ks, q, answer) ==
    IF ~ks.amazon_access_key
    THEN [res |-> <<>>, exc |-> None, api |-> 0]
    ELSE LET clean_query == _nlp_clean_query(q)
             body == AmazonTry(answer)
         IN  IF ~body.ok
             THEN [res |-> <<>>, exc |-> None, api |-> 1]
             ELSE [res |-> body.v, exc |-> None, api |-> 1]

-----------------------------------------------------------------------------
(* get_mock_data *)

S_New         == <<"N","e","w">>
S_OpenBox     == <<"O","p","e","n"," ","B","o","x">>
S_Parts       == <<"P","a","r","t","s">>
S_Refurbished == <<"R","e","f","u","r","b","i","s","h","e","d">>

\* lines 139-143 (lite) and 369-373 (smartdeal); the i-th entry is titled i
mock_db(v) ==
    IF v = "lite"
    THEN << [Source |-> "eBay", Title |-> 1, Condition |-> S_New,
             Total |-> Rat(999, 1)],
            [Source |-> "eBay", Title |-> 2, Condition |-> S_OpenBox,
             Total |-> Rat(865, 1)],
            [Source |-> "eBay", Title |-> 3, Condition |-> S_Parts,
             Total |-> Rat(210, 1)] >>
    ELSE << [Source |-> "Amazon", Title |-> 1, Condition |-> S_New,
             Total |-> Rat(348, 1)],
            [Source |-> "eBay", Title |-> 2, Condition |-> S_OpenBox,
             Total |-> Rat(295, 1)],
            [Source |-> "eBay", Title |-> 3, Condition |-> S_Refurbished,
             Total |-> Rat(340, 1)] >>

\* Python's  sub in s  on strings
Contains(sub, s) ==
    \E i \in 0..(Len(s) - Len(sub)) : SubSeq(s, i + 1, i + Len(sub)) = sub

HasNew(x)  == Contains(S_New, x.Condition)
HasNoNew(x) == ~Contains(S_New, x.Condition)

\* a mutant: the "Used/Refurbished" branch is missing
get_mock_data_no_used(v, f) ==
    IF f = "New" THEN SelectSeq(mock_db(v), HasNew) ELSE mock_db(v)

get_mock_data(v, f) ==
    IF f = "New" THEN SelectSeq(mock_db(v), HasNew)
    ELSE IF f = "Used/Refurbished" THEN SelectSeq(mock_db(v), HasNoNew)
    ELSE mock_db(v)

-----------------------------------------------------------------------------
(* df.sort_values(by="Total (USD)") *)

\* the orders of the rows S of l that are non-decreasing by Total
RECURSIVE Orders(_, _)
Orders(l, S) ==
    IF S = {} THEN {<<>>}
    ELSE UNION { {<<i>> \o t : t \in Orders(l, S \ {i})} :
                 i \in {i \in S : \A j \in S : RatLE(l[i].Total, l[j].Total)} }

\* a mutant: the frame is displayed as built
sort_values_none(l) == {l}

\* sort_values is called without kind=, so pandas sorts with its default
\* kind "quicksort", which is not a stable sort: rows with equal totals come
\* out in an order the build decides.  The set of the frames it may return.
sort_values(l) ==
    {[k \in 1..Len(l) |-> l[o[k]]] : o \in Orders(l, 1..Len(l))}

-----------------------------------------------------------------------------
(* main(): one run of the script with the search button pressed *)

Filters == {"New", "Used/Refurbished", "Any"}

Q_Empty == <<>>
Q_BuyTv == <<"B","u","y"," ","T","V">>
Queries == {Q_Empty, Q_BuyTv}

KeyNames == {"ebay_client_id", "ebay_client_secret", "amazon_access_key",
             "amazon_secret_key", "amazon_tag", "exchange_rate_key"}
AmazonKeyNames == {"amazon_access_key", "amazon_secret_key", "amazon_tag"}

\* api_keys of lines 182-186 / 425-429, each text input empty or not; the
\* lite application has no Amazon inputs
KeySets(v) ==
    {ks \in [KeyNames -> BOOLEAN] :
        v = "lite" => \A n \in AmazonKeyNames : ~ks[n]}

\* a mutant: Amazon is searched whatever the filter
AmazonEnabledAlways(f) == TRUE

\* line 448
AmazonEnabled(f) == f \in {"New", "Any"}

NoCalls == [ebay |-> 0, amazon |-> 0, amazon_api |-> 0, ebay_net |-> 0,
            rate_net |-> 0]
NoWorld == [rate |-> NoRateCall, token |-> "no_call", ebay |-> NoEbayCall,
            amazon |-> NoAmazonCall]

\* The answers of the remote services to the calls one run makes.  A service
\* that is not called answers nothing; Amazon accepts no request signed with
\* an empty secret or tag.
RateWorld(q, ks, entry) ==
    IF q # Q_Empty /\ ~entry.present /\ ks.exchange_rate_key
    THEN RateAnswers ELSE {NoRateCall}

TokenWorld(m, q, ks) ==
    IF q # Q_Empty /\ ~m /\ ks.ebay_client_id /\ ks.ebay_client_secret
    THEN TokenAnswers ELSE {"no_call"}

EbayWorld(t) == IF t = "ok" THEN EbayAnswers ELSE {NoEbayCall}

AmazonRefusals == {a \in AmazonAnswers : a.kind # "items"}

AmazonWorld(v, f, m, q, ks) ==
    IF q # Q_Empty /\ ~m /\ v = "smartdeal" /\ AmazonEnabled(f)
       /\ ks.amazon_access_key
    THEN IF ks.amazon_secret_key /\ ks.amazon_tag
         THEN AmazonAnswers
         ELSE AmazonRefusals
    ELSE {NoAmazonCall}

NotInvoked == [res |-> <<>>, exc |-> None, api |-> 0]

\* lines 177-197 (lite) and 420-450 (smartdeal): everything up to the frame
main(v, f, m, q, ks, entry, w) ==
    IF q = Q_Empty
    THEN \* st.warning and return: no aggregator is built
         [rates |-> EmptyTable, entry |-> entry, ebay_res |-> <<>>,
          amz_res |-> <<>>, results |-> <<>>, calls |-> NoCalls, raised |-> FALSE]
    ELSE
    LET r == cached_get_exchange_rates(ks, entry, w.rate)
    IN  IF m
        THEN [rates |-> r.value, entry |-> r.entry, ebay_res |-> <<>>,
              amz_res |-> <<>>, results |-> get_mock_data(v, f),
              calls |-> [NoCalls EXCEPT !.rate_net = r.net], raised |-> FALSE]
        ELSE
        LET e == search_ebay(v, ks, r.value, q, w.token, w.ebay)
            a == IF e.exc = None /\ v = "smartdeal" /\ AmazonEnabled(f)
                 THEN search_amazon(ks, q, w.amazon)
                 ELSE NotInvoked
            invoked == e.exc = None /\ v = "smartdeal" /\ AmazonEnabled(f)
            left == e.exc # None \/ a.exc # None
        IN  [rates |-> r.value, entry |-> r.entry,
             ebay_res |-> e.res, amz_res |-> a.res,
             results |-> IF left THEN <<>> ELSE e.res \o a.res,
             calls |-> [ebay |-> 1, amazon |-> IF invoked THEN 1 ELSE 0,
                        amazon_api |-> a.api, ebay_net |-> e.net,
                        rate_net |-> r.net],
             raised |-> left]

\* lines 199-201 / 453-458
Frames(l) == IF l = <<>> THEN {<<>>} ELSE sort_values(l)

Blank ==
    /\ condition_filter = "New"
    /\ use_mock = TRUE
    /\ query = Q_Empty
    /\ keys = [n \in KeyNames |-> FALSE]
    /\ rates = EmptyTable
    /\ world = NoWorld
    /\ ebay_res = <<>>
    /\ amz_res = <<>>
    /\ results = <<>>
    /\ df = <<>>
    /\ calls = NoCalls
    /\ raised = FALSE

CpIdle == cp_pc = "off" /\ cp_in = [price |-> Rat(0, 1), currency |-> "USD",
                                    rates |-> EmptyTable]
                        /\ cp_out = Ok(Rat(0, 1))
NqIdle == nq_pc = "off" /\ nq_in = <<>> /\ nq_once = <<>> /\ nq_twice = <<>>

Init ==
    /\ variant \in {"lite", "smartdeal"}
    /\ pc = "idle"
    /\ cache = NoEntry
    /\ Blank
    /\ CpIdle
    /\ NqIdle

\* the user presses the search button: the script runs to its end
Search ==
    /\ pc = "idle"
    /\ \E f \in Filters, m \in BOOLEAN, q \in Queries, ks \in KeySets(variant) :
         \E r \in RateWorld(q, ks, cache), t \in TokenWorld(m, q, ks) :
         \E e \in EbayWorld(t), a \in AmazonWorld(variant, f, m, q, ks) :
           LET w   == [rate |-> r, token |-> t, ebay |-> e, amazon |-> a]
               out == main(variant, f, m, q, ks, cache, w)
           IN  /\ condition_filter' = f
               /\ use_mock' = m
               /\ query' = q
               /\ keys' = ks
               /\ world' = w
               /\ rates' = out.rates
               /\ cache' = out.entry
               /\ ebay_res' = out.ebay_res
               /\ amz_res' = out.amz_res
               /\ results' = out.results
               /\ calls' = out.calls
               /\ raised' = out.raised
               /\ df' \in Frames(out.results)
    /\ pc' = "done"
    /\ UNCHANGED <<variant, cpVars, nqVars>>

\* any other interaction reruns the script without the button pressed: what
\* the last run displayed is gone, the st.cache_data entry stays
Rerun ==
    /\ pc = "done"
    /\ pc' = "idle"
    /\ condition_filter' = "New"
    /\ use_mock' = TRUE
    /\ query' = Q_Empty
    /\ keys' = [n \in KeyNames |-> FALSE]
    /\ rates' = EmptyTable
    /\ world' = NoWorld
    /\ ebay_res' = <<>>
    /\ amz_res' = <<>>
    /\ results' = <<>>
    /\ df' = <<>>
    /\ calls' = NoCalls
    /\ raised' = FALSE
    /\ UNCHANGED <<variant, cache, cpVars, nqVars>>

\* the ttl of the st.cache_data entry elapses between two runs
Expire ==
    /\ pc = "idle"
    /\ cache.present
    /\ cache' = NoEntry
    /\ UNCHANGED <<variant, pc, condition_filter, use_mock, query, keys, rates,
                   world, ebay_res, amz_res, results, df, calls, raised,
                   cpVars, nqVars>>

Next == Search \/ Rerun \/ Expire

Spec == Init /\ [][Next]_vars

-----------------------------------------------------------------------------
(* _convert_price applied to inputs of its own *)

Currencies == {"USD", "GBP", "EUR"}
RateValues == {<<0, 1>>, <<1, 2>>, <<2, 1>>}
ConvertTables == UNION {[D -> RateValues] : D \in SUBSET Currencies}
Amounts == {Rat(n, d) : n \in 0..MaxPrice, d \in {1, 2}}

AppOff ==
    /\ variant = "smartdeal"
    /\ pc = "off"
    /\ cache = NoEntry
    /\ Blank

InitConvert ==
    /\ AppOff
    /\ NqIdle
    /\ cp_pc = "in"
    /\ cp_in \in [price : Amounts, currency : Currencies, rates : ConvertTables]
    /\ cp_out = Ok(Rat(0, 1))

Convert ==
    /\ cp_pc = "in"
    /\ cp_out' = _convert_price(cp_in.price, cp_in.currency, cp_in.rates)
    /\ cp_pc' = "out"
    /\ UNCHANGED <<appVars, nqVars, cp_in>>

SpecConvert == InitConvert /\ [][Convert]_vars

-----------------------------------------------------------------------------
(* _nlp_clean_query applied to a query, and again to its result *)

QueryAlphabet == {"b", "B", "u", "y", " ", "\t"}
QueryTexts == SeqUpTo(QueryAlphabet, MaxQueryLen)

InitNormalize ==
    /\ AppOff
    /\ CpIdle
    /\ nq_pc = "in"
    /\ nq_in \in QueryTexts
    /\ nq_once = <<>>
    /\ nq_twice = <<>>

CleanOnce ==
    /\ nq_pc = "in"
    /\ nq_once' = _nlp_clean_query(nq_in)
    /\ nq_pc' = "once"
    /\ UNCHANGED <<appVars, cpVars, nq_in, nq_twice>>

CleanTwice ==
    /\ nq_pc = "once"
    /\ nq_twice' = _nlp_clean_query(nq_once)
    /\ nq_pc' = "twice"
    /\ UNCHANGED <<appVars, cpVars, nq_in, nq_once>>

NextNormalize == CleanOnce \/ CleanTwice

SpecNormalize == InitNormalize /\ [][NextNormalize]_vars

-----------------------------------------------------------------------------
(* Vocabulary of the properties *)

Done == pc = "done"
\* a run that searched the live sources
Live == pc = "done" /\ query # Q_Empty /\ ~use_mock
Mock == pc = "done" /\ query # Q_Empty /\ use_mock

InDf(o) == \E k \in 1..Len(df) : df[k] = o
Shown(source, i) ==
    \E k \in 1..Len(df) : df[k].Source = source /\ df[k].Title = i

EbayFailed ==
    \/ world.token \in TokenAnswers \ {"ok"}
    \/ world.ebay.kind \in EbayFailures
AmazonFailed == world.amazon.kind \in AmazonFailures

NoZeroRate == \A c \in DOMAIN rates : rates[c][1] # 0

WellFormed(item) == item.price \notin {"absent", "bad"} /\ item.ship # "bad"

EbayAllGood ==
    /\ world.ebay.kind = "items"
    /\ \A i \in 1..Len(world.ebay.items) : WellFormed(world.ebay.items[i])
    /\ NoZeroRate
AmazonAllGood ==
    /\ world.amazon.kind = "items"
    /\ \A i \in 1..Len(world.amazon.items) : world.amazon.items[i] # "bad"

SortedByTotal(l) ==
    \A j, k \in 1..Len(l) : j < k => RatLE(l[j].Total, l[k].Total)

Pos(l, o) == CHOOSE i \in 1..Len(l) : l[i] = o

-----------------------------------------------------------------------------
(* C1: whatever each source answers, no exception leaves the search, a     *)
(* source that fails internally contributes the empty list, and every      *)
(* offer the other source returned is in the frame displayed.              *)
C1_FailureIsolation ==
    Live =>
      /\ ~raised
      /\ (EbayFailed => ebay_res = <<>>)
      /\ (AmazonFailed => amz_res = <<>>)
      /\ \A i \in 1..Len(ebay_res) : InDf(ebay_res[i])
      /\ \A i \in 1..Len(amz_res) : InDf(amz_res[i])
      /\ (EbayFailed /\ AmazonAllGood
            => Len(amz_res) = Len(world.amazon.items))
      /\ (AmazonFailed /\ EbayAllGood
            => Len(ebay_res) = Len(world.ebay.items))

C1_Witness ==
    /\ Live
    /\ world.ebay.kind = "timeout"
    /\ world.amazon.kind = "items"
    /\ Len(amz_res) = MaxAmazonItems
    /\ Len(df) = Len(amz_res)
    /\ ~raised

(* C2: with the filter "Used/Refurbished" search_amazon is not invoked;    *)
(* with "New" and with "Any" a live search of the smartdeal application    *)
(* invokes it once.                                                        *)
C2_NewOnlySourceSkipped ==
    Done =>
      /\ (condition_filter = "Used/Refurbished"
            => calls.amazon = 0 /\ calls.amazon_api = 0)
      /\ (Live /\ variant = "smartdeal" /\ condition_filter \in {"New", "Any"}
            => calls.amazon = 1)

C2_Witness ==
    /\ Live
    /\ variant = "smartdeal"
    /\ condition_filter = "Used/Refurbished"
    /\ \A n \in AmazonKeyNames : keys[n]
    /\ Len(ebay_res) > 0
    /\ calls.amazon = 0

(* C3: the frame displayed is non-decreasing by total, and holds each      *)
(* offer of each source's contribution exactly once and nothing else.      *)
C3_SortedAndComplete ==
    Done =>
      /\ SortedByTotal(df)
      /\ Len(df) = Len(results)
      /\ (Live => /\ Len(df) = Len(ebay_res) + Len(amz_res)
                  /\ \A i \in 1..Len(ebay_res) : InDf(ebay_res[i])
                  /\ \A i \in 1..Len(amz_res) : InDf(amz_res[i])
                  /\ \A j, k \in 1..Len(df) : j # k => df[j] # df[k])

C3_Witness ==
    /\ Live
    /\ Len(ebay_res) = MaxEbayItems
    /\ Len(amz_res) > 0
    /\ ~SortedByTotal(results)
    /\ SortedByTotal(df)
    /\ Len(df) = Len(ebay_res) + Len(amz_res)

(* C4: offers of equal total are displayed in the order they have in the   *)
(* list handed to the sort (eBay's before Amazon's, each source's in the   *)
(* order it returned them).                                                *)
C4_StableSort ==
    Done =>
      \A j, k \in 1..Len(df) :
        j < k /\ RatEq(df[j].Total, df[k].Total)
          => Pos(results, df[j]) < Pos(results, df[k])

(* C5: _convert_price returns the amount unchanged when the currency is    *)
(* the target currency, whatever the table holds, and when the table is    *)
(* empty or has no entry for the currency.                                 *)
C5_IdentityConversion ==
    cp_pc = "out" =>
      (   \/ cp_in.currency = target_currency
          \/ DOMAIN cp_in.rates = {}
          \/ cp_in.currency \notin DOMAIN cp_in.rates
       => cp_out.ok /\ cp_out.v = cp_in.price)

C5_Witness ==
    /\ cp_pc = "out"
    /\ cp_in.currency = "USD"
    /\ DOMAIN cp_in.rates = {"USD", "GBP"}
    /\ cp_in.rates["USD"] = <<2, 1>>
    /\ cp_in.price = Rat(3, 1)
    /\ cp_out.ok /\ cp_out.v = Rat(3, 1)

(* C6: with a rate of exactly 0 for a currency other than the target,      *)
(* _convert_price returns the amount unchanged and raises nothing.         *)
C6_ZeroRateIsIdentity ==
    cp_pc = "out" =>
      (   /\ cp_in.currency # target_currency
          /\ cp_in.currency \in DOMAIN cp_in.rates
          /\ cp_in.rates[cp_in.currency][1] = 0
       => cp_out.ok /\ cp_out.v = cp_in.price)

(* C7: cleaning a cleaned query changes nothing.                           *)
C7_NormalizeIdempotent ==
    nq_pc = "twice" => nq_twice = nq_once

C7_Witness ==
    /\ nq_pc = "twice"
    /\ nq_in = <<"B", "u", "y", "\t", "b">>
    /\ nq_once = <<"b">>
    /\ nq_twice = <<"b">>

(* C8: in demo mode the filter "New" yields the catalog entries labelled   *)
(* "New", "Used/Refurbished" the other entries, "Any" the whole catalog,   *)
(* each in catalog order; every entry is in exactly one of the first two.  *)
LabelNew(x)    == x.Condition = S_New
LabelNotNew(x) == x.Condition # S_New
InList(l, x)   == \E i \in 1..Len(l) : l[i] = x

C8_MockPartition ==
    Mock =>
      /\ (condition_filter = "New"
            => results = SelectSeq(mock_db(variant), LabelNew))
      /\ (condition_filter = "Used/Refurbished"
            => results = SelectSeq(mock_db(variant), LabelNotNew))
      /\ (condition_filter = "Any" => results = mock_db(variant))
      /\ \A i \in 1..Len(mock_db(variant)) :
            InList(get_mock_data(variant, "New"), mock_db(variant)[i])
              # InList(get_mock_data(variant, "Used/Refurbished"),
                       mock_db(variant)[i])

C8_Witness ==
    /\ Mock
    /\ variant = "smartdeal"
    /\ condition_filter = "Used/Refurbished"
    /\ Len(results) = 2
    /\ results[1].Condition = S_OpenBox
    /\ results[2].Condition = S_Refurbished

(* C9: in a response of several items, every well-formed item is           *)
(* displayed even when another item of the response lacks a field or has   *)
(* a non-numeric one.  (Stated for tables without a zero rate, see C6.)    *)
C9_ItemIsolation ==
    Live /\ NoZeroRate =>
      /\ (world.ebay.kind = "items" =>
            \A i \in 1..Len(world.ebay.items) :
              WellFormed(world.ebay.items[i]) => Shown("eBay", i))
      /\ (world.amazon.kind = "items" =>
            \A i \in 1..Len(world.amazon.items) :
              world.amazon.items[i] # "bad" => Shown("Amazon", i))

(* C10: search_amazon returns the empty list and attempts no API call      *)
(* when one of its three credentials is empty.                             *)
C10_AmazonNeedsAllCredentials ==
    Done =>
      ((\E n \in AmazonKeyNames : ~keys[n])
         => amz_res = <<>> /\ calls.amazon_api = 0)

(* C11: an aggregator built without a rate-provider key gets the empty    *)
(* rate table and issues no request to the rate provider, whatever runs    *)
(* came before it (also runs with a key that cached a table less than the  *)
(* ttl ago).                                                               *)
C11_NoKeyNoRates ==
    Done /\ query # Q_Empty /\ ~keys.exchange_rate_key
      => rates = EmptyTable /\ calls.rate_net = 0

====
